---------------------------- MODULE Spec2Model ----------------------------
(***************************************************************************)
(* A model of sync_cookiecutter_template.py: the tool that synchronises a  *)
(* rendered Cookiecutter project back into its template.                   *)
(*                                                                         *)
(* A string is a sequence of characters, a character a one-letter string   *)
(* (NUL, BAD, CR and LF stand for the bytes 0x00, an invalid UTF-8 byte,   *)
(* 0x0D and 0x0A).  A path is a sequence of components, a component a      *)
(* string; an absolute path starts with the anchor component "/".  The     *)
(* file system is one function from absolute paths to file contents, so    *)
(* the two roots may name the same or nested directories.                  *)
(***************************************************************************)
EXTENDS Integers, Sequences, FiniteSets, TLC

(***************************************************************************)
(* Bounds of the model.                                                    *)
(***************************************************************************)
MaxTplFiles == 2
MaxExpFiles == 2
MaxRuns == 2
MaxTextLen == 3

(***************************************************************************)
(* Program constants.                                                      *)
(***************************************************************************)
TEXT_CHUNK == 16384

NUL == "\\0"
BAD == "\\xff"
CR == "\r"
LF == "\n"

(***************************************************************************)
(* Strings: the operations of Python's str the program uses.               *)
(***************************************************************************)
StartsWith(s, pre) ==
    /\ Len(pre) <= Len(s)
    /\ SubSeq(s, 1, Len(pre)) = pre

Contains(s, c) == \E i \in 1..Len(s) : s[i] = c

SeqToSet(q) == {q[i] : i \in 1..Len(q)}

\* The element of a one-element set.  Python evaluates an argument once, before
\* the call; an operator that reads its argument many times takes it through
\* a bound variable, Only({F(v) : v \in {argument}}), to do the same.
Only(S) == CHOOSE v \in S : TRUE

\* The first index i with s[i] = c, or 0.
RECURSIVE IndexFrom(_, _, _)
IndexFrom(s, c, i) ==
    IF i > Len(s) THEN 0
    ELSE IF s[i] = c THEN i
    ELSE IndexFrom(s, c, i + 1)

\* str.replace(src, dst) for a non-empty src: the non-overlapping occurrences
\* of src, found left to right, each replaced by dst.
RECURSIVE ReplaceNonEmpty(_, _, _)
ReplaceNonEmpty(s, src, dst) ==
    LET found == {k \in 1..(Len(s) - Len(src) + 1) : SubSeq(s, k, k + Len(src) - 1) = src}
    IN  IF found = {} THEN s
        ELSE LET k == CHOOSE h \in found : \A g \in found : h <= g
             IN  SubSeq(s, 1, k - 1) \o dst
                    \o Only({ReplaceNonEmpty(rest, src, dst) :
                                rest \in {SubSeq(s, k + Len(src), Len(s))}})

\* str.replace("", dst): dst before every character and at the end.
ReplaceEmpty(s, dst) ==
    LET n == Len(dst) + 1
    IN  [i \in 1..(Len(s) * n + Len(dst)) |->
            IF (i - 1) % n < Len(dst) THEN dst[((i - 1) % n) + 1]
            ELSE s[((i - 1) \div n) + 1]]

Replace(s, src, dst) ==
    Only({IF src = <<>> THEN ReplaceEmpty(v, dst) ELSE ReplaceNonEmpty(v, src, dst) :
            v \in {s}})

(***************************************************************************)
(* make_maps: a mapping is Python's insertion-ordered dict, modelled as a  *)
(* sequence of <<key, value>> pairs with distinct keys.                    *)
(***************************************************************************)
HasKey(d, k) == \E i \in 1..Len(d) : d[i][1] = k

\* d[k] = v: a present key keeps its place and takes the new value, a new
\* key goes to the end.
DictSet(d, k, v) ==
    IF HasKey(d, k)
    THEN [i \in 1..Len(d) |-> IF d[i][1] = k THEN <<k, v>> ELSE d[i]]
    ELSE Append(d, <<k, v>>)

\* The entry e put into d, sorted by descending key length, behind the entries
\* of the same key length (sorted(..., reverse=True) is stable).
RECURSIVE InsertByLen(_, _)
InsertByLen(d, e) ==
    IF d = <<>> THEN <<e>>
    ELSE IF Len(Head(d)[1]) >= Len(e[1]) THEN <<Head(d)>> \o InsertByLen(Tail(d), e)
    ELSE <<e>> \o d

RECURSIVE SortLongestFirstFrom(_, _, _)
SortLongestFirstFrom(d, i, acc) ==
    IF i > Len(d) THEN acc
    ELSE SortLongestFirstFrom(d, i + 1, InsertByLen(acc, d[i]))

SortLongestFirstUnsorted(d) == d

\* dict(sorted(d.items(), key=lambda t: len(t[0]), reverse=True))
SortLongestFirst(d) == SortLongestFirstFrom(d, 1, <<>>)

\* f"{{{{cookiecutter.{name}}}}}"
Placeholder(name) ==
    <<"{", "{", "c", "o", "o", "k", "i", "e", "c", "u", "t", "t", "e", "r", ".">>
        \o name \o <<"}", "}">>

\* "=" in spec
SpecOk(spec) == Contains(spec, "=")

\* spec.split("=", 1)
SpecName(spec) == SubSeq(spec, 1, IndexFrom(spec, "=", 1) - 1)
SpecValue(spec) == SubSeq(spec, IndexFrom(spec, "=", 1) + 1, Len(spec))

\* The loop of make_maps over specs[i..], for specs that all hold an "=".
RECURSIVE Render2TplFrom(_, _, _)
Render2TplFrom(specs, i, d) ==
    IF i > Len(specs) THEN d
    ELSE Render2TplFrom(specs, i + 1,
            DictSet(d, SpecValue(specs[i]), Placeholder(SpecName(specs[i]))))

RECURSIVE Tpl2RenderFrom(_, _, _)
Tpl2RenderFrom(specs, i, d) ==
    IF i > Len(specs) THEN d
    ELSE Tpl2RenderFrom(specs, i + 1,
            DictSet(d, Placeholder(SpecName(specs[i])), SpecValue(specs[i])))

\* make_maps exits when a spec holds no "=".
MakeMapsExits(specs) == \E i \in 1..Len(specs) : ~SpecOk(specs[i])

MakeRender2Tpl(specs) == SortLongestFirst(Render2TplFrom(specs, 1, <<>>))
MakeTpl2Render(specs) == SortLongestFirst(Tpl2RenderFrom(specs, 1, <<>>))

(***************************************************************************)
(* substitute and relpath_substitute.                                      *)
(***************************************************************************)
RECURSIVE SubstituteFrom(_, _, _)
SubstituteFrom(text, mapping, i) ==
    IF i > Len(mapping) THEN text
    ELSE Only({SubstituteFrom(replaced, mapping, i + 1) :
                 replaced \in {Replace(text, mapping[i][1], mapping[i][2])}})

substitute(text, mapping) == SubstituteFrom(text, mapping, 1)

\* The components of a string split at "/".
RECURSIVE SplitSlash(_)
SplitSlash(s) ==
    LET found == {k \in 1..Len(s) : s[k] = "/"}
    IN  IF found = {} THEN <<s>>
        ELSE LET k == CHOOSE h \in found : \A g \in found : h <= g
             IN  <<SubSeq(s, 1, k - 1)>> \o SplitSlash(SubSeq(s, k + 1, Len(s)))

Anchor == <<"/">>

DropEmptyAndDot(parts) ==
    SelectSeq(parts, LAMBDA c : c # <<>> /\ c # <<".">>)

\* Path(*parts): every part is split at "/", the empty and "." components are
\* dropped, and a part that starts with "/" makes the path absolute and drops
\* what came before it.
RECURSIVE PathOfFrom(_, _, _)
PathOfFrom(parts, i, acc) ==
    IF i > Len(parts) THEN acc
    ELSE LET comps == DropEmptyAndDot(SplitSlash(parts[i]))
         IN  IF StartsWith(parts[i], <<"/">>)
             THEN PathOfFrom(parts, i + 1, <<Anchor>> \o comps)
             ELSE PathOfFrom(parts, i + 1, acc \o comps)

PathOf(parts) == Only({PathOfFrom(v, 1, <<>>) : v \in {parts}})

\* The components of a path joined by "/".
RECURSIVE JoinedFrom(_, _)
JoinedFrom(rel, i) ==
    IF i > Len(rel) THEN <<>>
    ELSE IF i = Len(rel) THEN rel[i]
    ELSE rel[i] \o <<"/">> \o JoinedFrom(rel, i + 1)

relpath_substituteJoined(rel, mapping) == PathOf(<<substitute(JoinedFrom(rel, 1), mapping)>>)

relpath_substitute(rel, mapping) ==
    PathOf([i \in 1..Len(rel) |-> substitute(rel[i], mapping)])

IsAbsolute(p) == p # <<>> /\ p[1] = Anchor

\* root / rel
Join(root, rel) == IF IsAbsolute(rel) THEN rel ELSE root \o rel


(***************************************************************************)
(* The state: the file system and the command line (fixed by Init), and    *)
(* the locals of main().                                                   *)
(***************************************************************************)
VARIABLES
    fs,                  \* absolute path -> bytes, the regular files
    dirs,                \* the directories
    noperm,              \* the files the process may neither read nor write
    tmpl_root,           \* Path(ns.template_dir).resolve()
    exp_root,            \* Path(ns.expanded_dir).resolve()
    argv_var,            \* ns.var, the raw NAME=VALUE strings
    diff_only,           \* ns.diff_only
    pc,                  \* where main() is
    render2tpl,
    tpl2render,
    todo,                \* the files os.walk has still to yield in this pass
    unmapped_expanded,
    missing_in_expanded,
    log,                 \* what this run printed and wrote, in order
    run,                 \* the number of this run of main()
    hist,                \* the earlier runs
    fs0,                 \* the file system when the first run started
    arg_old,             \* the old text print_color_diff is applied to on its own
    arg_text,            \* the text a helper function is applied to on its own
    arg_rel,             \* the relative path it is applied to
    result               \* what it returned

NoResult == [text |-> <<>>, rel |-> <<>>, exp_rel |-> <<>>, printed |-> <<>>]

world == <<fs, dirs, noperm, tmpl_root, exp_root, argv_var>>
args == <<arg_old, arg_text, arg_rel, result>>
locals == <<render2tpl, tpl2render, todo, unmapped_expanded, missing_in_expanded>>
vars == <<fs, dirs, noperm, tmpl_root, exp_root, argv_var, diff_only, pc,
          render2tpl, tpl2render, todo, unmapped_expanded, missing_in_expanded,
          log, run, hist, fs0, arg_old, arg_text, arg_rel, result>>

(***************************************************************************)
(* The file system.                                                        *)
(***************************************************************************)
NoPath == <<>>

IsPrefix(p, q) == Len(p) <= Len(q) /\ SubSeq(q, 1, Len(p)) = p

Parent(p) == IF Len(p) <= 1 THEN p ELSE SubSeq(p, 1, Len(p) - 1)

Last(p) == p[Len(p)]

\* The file an absolute path names: ".." steps to the parent, and a component
\* is looked up only in a directory.
RECURSIVE ResolveFrom(_, _, _)
ResolveFrom(p, i, cur) ==
    IF i > Len(p) THEN cur
    ELSE IF cur \notin dirs THEN NoPath
    ELSE IF p[i] = <<".", ".">> THEN ResolveFrom(p, i + 1, Parent(cur))
    ELSE ResolveFrom(p, i + 1, Append(cur, p[i]))

Resolve(p) ==
    Only({IF IsAbsolute(v) THEN ResolveFrom(v, 2, <<Anchor>>) ELSE NoPath : v \in {p}})

\* Path.is_file(), Path.is_dir()
is_file(p) == Resolve(p) \in DOMAIN fs
is_dir(p) == Resolve(p) \in dirs

\* The regular files os.walk(root) yields, as absolute paths.
FilesUnder(root) == {f \in DOMAIN fs : IsPrefix(root, f) /\ Len(f) > Len(root)}

\* path.relative_to(root)
RelativeTo(path, root) == SubSeq(path, Len(root) + 1, Len(path))

\* os.walk is top-down: the files of a directory come before those of its
\* subdirectories, and a subdirectory is walked to its end before the next one
\* is entered.  f may be the next file of the walk of root, of which the files
\* of pending are still to come.
WalkNext(root, pending, f) ==
    /\ f \in pending
    /\ \A k \in Len(root)..(Len(f) - 2) :
          LET above == SubSeq(f, 1, k)        \* a directory above f's
              sub == SubSeq(f, 1, k + 1)      \* its subdirectory holding f
          IN  /\ \A g \in pending : Parent(g) # above
              /\ \A g \in pending :
                    (IsPrefix(above, g) /\ ~IsPrefix(sub, g))
                    => \A h \in FilesUnder(root) \ pending :
                          ~(IsPrefix(SubSeq(g, 1, k + 1), h))

\* open(path, "rb") and the reads fail on a file without permission.
CanRead(path) == path \notin noperm

is_binaryUnopenedOnly(path) == ~CanRead(path)

\* is_binary: a NUL among the first TEXT_CHUNK bytes, or the file cannot be opened.
is_binary(path) ==
    IF ~CanRead(path) THEN TRUE
    ELSE \E i \in 1..Len(fs[path]) : i <= TEXT_CHUNK /\ fs[path][i] = NUL

\* bytes.decode("utf-8") fails on an invalid byte.
Decodes(bytes) == ~Contains(bytes, BAD)

\* The universal newlines of read_text: "\r\n" and "\r" are read as "\n".
RECURSIVE TranslateNewlines(_)
TranslateNewlines(s) ==
    IF s = <<>> THEN <<>>
    ELSE IF Head(s) = CR
         THEN IF Len(s) >= 2 /\ s[2] = LF
              THEN <<LF>> \o TranslateNewlines(SubSeq(s, 3, Len(s)))
              ELSE <<LF>> \o TranslateNewlines(Tail(s))
         ELSE <<Head(s)>> \o TranslateNewlines(Tail(s))

\* Path.read_text(encoding="utf-8") of a readable file that decodes.
read_text(path) == TranslateNewlines(fs[path])

\* Path.write_text(text, encoding="utf-8"): on POSIX "\n" is written as it is.
EncodeText(text) == text

(***************************************************************************)
(* The inputs: directory trees and command lines the tool can be run on.   *)
(* Both trees live under "/": the template under /t, the rendered project  *)
(* under /e.                                                               *)
(***************************************************************************)
README == <<"R", "E", "A", "D", "M", "E", ".", "m", "d">>
VENV == <<".", "v", "e", "n", "v">>
MYPY_CACHE == <<".", "m", "y", "p", "y", "_", "c", "a", "c", "h", "e">>

TDir == <<Anchor, <<"t">>>>
EDir == <<Anchor, <<"e">>>>

\* The files of a tree: the sets of <<path, bytes>> pairs, one pair per path
\* and at most max of them, drawn from candidates (<<relative path, the
\* contents it may have>>) under root.
Pairs(root, candidates) ==
    UNION {{<<root \o c[1], d>> : d \in c[2]} : c \in candidates}

Trees(root, candidates, max) ==
    {S \in SUBSET Pairs(root, candidates) :
        /\ Cardinality(S) <= max
        /\ \A a, b \in S : a[1] = b[1] => a = b}

FsOf(S) == [p \in {a[1] : a \in S} |-> (CHOOSE a \in S : a[1] = p)[2]]

\* The directories a set of files lies in, and "/".
RECURSIVE Ancestors(_)
Ancestors(p) == IF Len(p) <= 1 THEN {<<Anchor>>} ELSE {Parent(p)} \cup Ancestors(Parent(p))

DirsOf(files) == {<<Anchor>>} \cup UNION {Ancestors(f) : f \in files}

World(S, extraDirs, np, troot, eroot, specs) ==
    [fs |-> FsOf(S), dirs |-> DirsOf({a[1] : a \in S}) \cup extraDirs, noperm |-> np,
     tmpl_root |-> troot, exp_root |-> eroot, argv_var |-> specs]

\* --var n=W: the greeting scenario.  The template's g holds "h{{cookiecutter.n}}"
\* (or a literal "hW"), the rendered g "hW" or the edited "hW!".
VarGreeting == << <<"n", "=", "W">> >>

\* The files whose contents are reconciled: the text g, the file named by the
\* bound value (W in the rendered project, its placeholder in the template, and
\* a rendered file that bears the placeholder's name itself) and the binary b.
TplGreeting ==
    { << <<<<"g">>>>, {<<"h">> \o Placeholder(<<"n">>), <<"h", "W">>} >>,
      << <<Placeholder(<<"n">>)>>, {<<"1">>} >>,
      << <<<<"b">>>>, {<<NUL, "1">>} >> }

ExpGreeting ==
    { << <<<<"g">>>>, {<<"h", "W">>, <<"h", "W", "!">>} >>,
      << <<<<"W">>>>, {<<"1">>, <<"2">>} >>,
      << <<<<"b">>>>, {<<NUL, "1">>, <<NUL, "2">>} >>,
      << <<Placeholder(<<"n">>)>>, {<<"3">>} >> }

\* The files that are skipped or only reported: README.md, the rendered u
\* without a counterpart, and the files under .venv and .mypy_cache.
TplReporting ==
    { << <<<<"g">>>>, {<<"h", "W">>} >>,
      << <<README>>, {<<"1">>} >>,
      << <<VENV, <<"g">>>>, {<<"1">>} >> }

ExpReporting ==
    { << <<<<"g">>>>, {<<"h", "W", "!">>} >>,
      << <<README>>, {<<"2">>} >>,
      << <<<<"u">>>>, {<<"1">>} >>,
      << <<VENV, <<"g">>>>, {<<"2">>} >>,
      << <<VENV, <<"u">>>>, {<<"1">>} >>,
      << <<MYPY_CACHE, <<"u">>>>, {<<"1">>} >> }

\* The two roots apart (/t and /e), or both /t.
WorldsGreeting ==
    {World(T \cup E, {TDir, EDir}, {}, TDir, EDir, VarGreeting) :
        T \in Trees(TDir, TplGreeting, MaxTplFiles),
        E \in Trees(EDir, ExpGreeting, MaxExpFiles)}
    \cup
    {World(T, {TDir}, {}, TDir, TDir, VarGreeting) :
        T \in Trees(TDir, TplGreeting, MaxTplFiles)}

WorldsReporting ==
    {World(T \cup E, {TDir, EDir}, {}, TDir, EDir, VarGreeting) :
        T \in Trees(TDir, TplReporting, MaxTplFiles),
        E \in Trees(EDir, ExpReporting, MaxExpFiles)}
    \cup
    {World(T, {TDir}, {}, TDir, TDir, VarGreeting) :
        T \in Trees(TDir, TplReporting, MaxTplFiles)}

\* --var a=x --var a=y: one name bound twice, so that the rendered x and y
\* both translate to the template's {{cookiecutter.a}}.
VarTwice == << <<"a", "=", "x">>, <<"a", "=", "y">> >>

WorldsTwice ==
    {World(T \cup E, {TDir, EDir}, {}, TDir, EDir, VarTwice) :
        T \in Trees(TDir, { << <<Placeholder(<<"a">>)>>, {<<"1">>} >> }, MaxTplFiles),
        E \in Trees(EDir, { << <<<<"x">>>>, {<<"1">>, <<"2">>} >>,
                            << <<<<"y">>>>, {<<"1">>, <<"2">>} >> }, MaxExpFiles)}

\* --var s=c --var p=sc: a value that is part of another value (and of the
\* word "cookiecutter").
VarNested == << <<"s", "=", "c">>, <<"p", "=", "s", "c">> >>

WorldsNested ==
    {World(T \cup E, {TDir, EDir}, {}, TDir, EDir, VarNested) :
        T \in Trees(TDir, { << <<<<"g">>>>, {Placeholder(<<"p">>)} >>,
                            << <<Placeholder(<<"p">>)>>, {<<"1">>} >> }, MaxTplFiles),
        E \in Trees(EDir, { << <<<<"g">>>>, {<<"s", "c">>, <<"a">>} >>,
                            << <<<<"s", "c">>>>, {<<"1">>} >> }, MaxExpFiles)}

\* A --var without "=", alone or after a good one.
WorldsBadVar ==
    {World(T \cup E, {TDir, EDir}, {}, TDir, EDir, specs) :
        T \in Trees(TDir, { << <<<<"g">>>>, {<<"h">>} >> }, MaxTplFiles),
        E \in Trees(EDir, { << <<<<"g">>>>, {<<"h", "W">>} >> }, MaxExpFiles),
        specs \in { << <<"n", "W">> >>, << <<"n", "=", "W">>, <<"x">> >> }}

\* A root that is a regular file, or that does not exist.
WorldsBadRoot ==
    {World(T \cup E, {}, {}, r[1], r[2], VarGreeting) :
        T \in {{<<TDir \o <<<<"g">>>>, <<"h">>>>}},
        E \in {{<<EDir \o <<<<"g">>>>, <<"h", "W">>>>}},
        r \in { <<TDir \o <<<<"g">>>>, EDir>>, <<TDir, EDir \o <<<<"g">>>>>>,
                <<TDir \o <<<<"x">>>>, EDir>>, <<TDir, EDir \o <<<<"x">>>>>> }}

\* Files that cannot be read or decoded: g is text, b binary.  At most one
\* file of the two trees denies permission.
Unreadable(S) ==
    {{}} \cup {{a[1]} : a \in {c \in S : Last(c[1]) \in {<<"g">>, <<"b">>}
                                      \/ (Last(c[1]) = README /\ IsPrefix(EDir, c[1]))}}

WorldsUnreadable ==
    UNION {{World(TE[1] \cup TE[2], {TDir, EDir}, np, TDir, EDir, VarGreeting) :
               np \in Unreadable(TE[1] \cup TE[2])} :
           TE \in Trees(TDir, { << <<<<"g">>>>, {<<"h">>, <<"h", BAD>>} >>,
                                << <<<<"b">>>>, {<<NUL, "1">>} >>,
                                << <<README>>, {<<"1">>} >> }, MaxTplFiles)
                  \X Trees(EDir, { << <<<<"g">>>>, {<<"h", "W">>, <<"h", BAD>>} >>,
                                   << <<<<"b">>>>, {<<NUL, "2">>} >>,
                                   << <<README>>, {<<"2", BAD>>} >> }, MaxExpFiles)}

\* Line ends: "\r\n" and "\r" in either file.
WorldsNewline ==
    {World(T \cup E, {TDir, EDir}, {}, TDir, EDir, VarGreeting) :
        T \in Trees(TDir, { << <<<<"g">>>>, {<<"h", LF>>, <<"h", CR, LF>>} >> },
                    MaxTplFiles),
        E \in Trees(EDir, { << <<<<"g">>>>, {<<"h", LF>>, <<"h", CR, LF>>,
                                             <<"h", CR>>, <<"W", CR, LF>>} >> },
                    MaxExpFiles)}

\* One root inside the other: the expanded root is "/" and holds the template
\* root /t, or the template root is "/" and holds the expanded root /e.
WorldsInside ==
    {World(T \cup E, {TDir, EDir}, {}, r[1], r[2], VarGreeting) :
        T \in Trees(TDir, { << <<<<"g">>>>, {<<"h", "W">>} >>,
                            << <<<<"t">>, <<"g">>>>, {<<"1">>} >> }, MaxTplFiles),
        E \in Trees(EDir, { << <<<<"g">>>>, {<<"h", "W">>} >>,
                            << <<<<"e">>, <<"g">>>>, {<<"1">>} >> }, MaxExpFiles),
        r \in { <<TDir, <<Anchor>>>>, <<<<Anchor>>, EDir>> }}

\* Both roots /t, --var s=c --var p=sc and a chain of three files: c translates
\* to the placeholder of s, and that name, which holds the value c twice,
\* translates to the third name.
ChainFiles ==
    { << <<<<"c">>>>, {<<"1">>} >>,
      << <<Placeholder(<<"s">>)>>, {<<"2">>} >>,
      << relpath_substitute(<<Placeholder(<<"s">>)>>, MakeRender2Tpl(VarNested)), {<<"2">>} >> }

WorldsChain ==
    {World(T, {TDir}, {}, TDir, TDir, VarNested) :
        T \in Trees(TDir, ChainFiles, MaxTplFiles + 1)}

Worlds ==
    WorldsGreeting \cup WorldsReporting \cup WorldsTwice \cup WorldsNested \cup WorldsBadVar
        \cup WorldsBadRoot \cup WorldsUnreadable \cup WorldsNewline \cup WorldsInside
        \cup WorldsChain

Init ==
    /\ \E w \in Worlds :
          /\ fs = w.fs
          /\ dirs = w.dirs
          /\ noperm = w.noperm
          /\ tmpl_root = w.tmpl_root
          /\ exp_root = w.exp_root
          /\ argv_var = w.argv_var
          /\ fs0 = w.fs
    /\ diff_only \in BOOLEAN
    /\ pc = "start"
    /\ render2tpl = <<>>
    /\ tpl2render = <<>>
    /\ todo = {}
    /\ unmapped_expanded = <<>>
    /\ missing_in_expanded = <<>>
    /\ log = <<>>
    /\ run = 1
    /\ hist = <<>>
    /\ arg_old = <<>>
    /\ arg_text = <<>>
    /\ arg_rel = <<>>
    /\ result = NoResult

(***************************************************************************)
(* main().  An entry of log is one thing the run printed or wrote: op says *)
(* what, rel is the template-relative path it is about, path the file      *)
(* written and src the expanded file read.                                 *)
(***************************************************************************)
Event(op, rel, path, src) == [op |-> op, rel |-> rel, path |-> path, src |-> src]

Printed(op) == Append(log, Event(op, <<>>, NoPath, NoPath))

\* sys.exit(f"{tmpl_root} is not a directory")
StartBadTemplateRoot ==
    /\ pc = "start"
    /\ ~is_dir(tmpl_root)
    /\ pc' = "exit"
    /\ log' = Printed("not_a_directory")
    /\ UNCHANGED <<world, locals, diff_only, run, hist, fs0, args>>

\* sys.exit(f"{exp_root} is not a directory")
StartBadExpandedRoot ==
    /\ pc = "start"
    /\ is_dir(tmpl_root)
    /\ ~is_dir(exp_root)
    /\ pc' = "exit"
    /\ log' = Printed("not_a_directory")
    /\ UNCHANGED <<world, locals, diff_only, run, hist, fs0, args>>

\* make_maps: sys.exit(f"--var expects NAME=VALUE, got {spec!r}")
StartBadVar ==
    /\ pc = "start"
    /\ is_dir(tmpl_root)
    /\ is_dir(exp_root)
    /\ MakeMapsExits(argv_var)
    /\ pc' = "exit"
    /\ log' = Printed("var_expects_name_value")
    /\ UNCHANGED <<world, locals, diff_only, run, hist, fs0, args>>

\* The roots are directories and make_maps returns: pass 1 starts its walk.
Start ==
    /\ pc = "start"
    /\ is_dir(tmpl_root)
    /\ is_dir(exp_root)
    /\ ~MakeMapsExits(argv_var)
    /\ render2tpl' = MakeRender2Tpl(argv_var)
    /\ tpl2render' = MakeTpl2Render(argv_var)
    /\ unmapped_expanded' = <<>>
    /\ missing_in_expanded' = <<>>
    /\ todo' = FilesUnder(exp_root)
    /\ pc' = "pass1"
    /\ UNCHANGED <<world, diff_only, log, run, hist, fs0, args>>

print_color_diffSilent(old, new, rel) == <<>>

\* print_color_diff: what it prints, the unified diff of two texts under the
\* name rel; the diff of equal texts is empty.
print_color_diff(old, new, rel) ==
    IF old = new THEN <<>> ELSE <<Event("diff", rel, NoPath, NoPath)>>

\* The locals of one iteration of pass 1 over the expanded file exp_path.
ExpRel(exp_path) == RelativeTo(exp_path, exp_root)
TplRel(exp_path) == relpath_substitute(ExpRel(exp_path), render2tpl)
TplPath(exp_path) == Join(tmpl_root, TplRel(exp_path))

MappedUnlessExcluded(exp_path) ==
    /\ is_file(TplPath(exp_path))
    /\ \A i \in 1..Len(ExpRel(exp_path)) : ExpRel(exp_path)[i] \notin {VENV, MYPY_CACHE}

\* tpl_path.is_file()
Mapped(exp_path) == is_file(TplPath(exp_path))

IsReadmeNever(fname) == FALSE

\* fname == "README.md"
IsReadme(fname) == fname = README

\* The bytes of the two files differ: the template file is to be updated.
BinaryDiffers(tpl_bytes, exp_bytes) == tpl_bytes # exp_bytes

\* if diff_only: print(...) else: tpl_path.write_bytes(exp_bytes)
BinaryWrites == ~diff_only

\* new_text = substitute(text, render2tpl)
NewText(text) == substitute(text, render2tpl)

TextDiffersAlways(old_text, new_text) == TRUE

\* if old_text != new_text
TextDiffers(old_text, new_text) == old_text # new_text

TextWritesAlways == TRUE

\* if not diff_only: tpl_path.write_text(new_text, encoding="utf-8")
TextWrites == ~diff_only

InParts(c, rel) == \E i \in 1..Len(rel) : rel[i] = c

ReportedAlways(exp_rel) == TRUE

ReportedVenvOnly(exp_rel) == ~InParts(VENV, exp_rel)

\* '.venv' not in exp_rel.parts and '.mypy_cache' not in exp_rel.parts
Reported(exp_rel) == ~InParts(VENV, exp_rel) /\ ~InParts(MYPY_CACHE, exp_rel)

\* if not tpl_path.is_file(): ...; continue
Pass1Unmapped(exp_path) ==
    /\ pc = "pass1"
    /\ WalkNext(exp_root, todo, exp_path)
    /\ ~Mapped(exp_path)
    /\ unmapped_expanded' =
          IF Reported(ExpRel(exp_path))
          THEN Append(unmapped_expanded, ExpRel(exp_path))
          ELSE unmapped_expanded
    /\ todo' = todo \ {exp_path}
    /\ UNCHANGED <<world, diff_only, pc, render2tpl, tpl2render,
                   missing_in_expanded, log, run, hist, fs0, args>>

\* if fname == "README.md": continue
Pass1Readme(exp_path) ==
    /\ pc = "pass1"
    /\ WalkNext(exp_root, todo, exp_path)
    /\ Mapped(exp_path)
    /\ IsReadme(Last(exp_path))
    /\ todo' = todo \ {exp_path}
    /\ UNCHANGED <<world, diff_only, pc, render2tpl, tpl2render,
                   unmapped_expanded, missing_in_expanded, log, run, hist, fs0, args>>

\* The binary branch: both files are read as bytes and compared.
Pass1Binary(exp_path) ==
    /\ pc = "pass1"
    /\ WalkNext(exp_root, todo, exp_path)
    /\ Mapped(exp_path)
    /\ ~IsReadme(Last(exp_path))
    /\ is_binary(exp_path)
    /\ LET tpl_file == Resolve(TplPath(exp_path))
           exp_bytes == fs[exp_path]
       IN  /\ CanRead(exp_path)
           /\ CanRead(tpl_file)
           /\ IF BinaryDiffers(fs[tpl_file], exp_bytes)
              THEN IF ~BinaryWrites
                   THEN /\ log' = Append(log, Event("binary_differs", TplRel(exp_path),
                                                    NoPath, exp_path))
                        /\ fs' = fs
                   ELSE /\ fs' = [fs EXCEPT ![tpl_file] = exp_bytes]
                        /\ log' = Append(log, Event("write_bytes", TplRel(exp_path),
                                                    tpl_file, exp_path))
              ELSE UNCHANGED <<fs, log>>
    /\ todo' = todo \ {exp_path}
    /\ UNCHANGED <<dirs, noperm, tmpl_root, exp_root, argv_var, diff_only, pc,
                   render2tpl, tpl2render, unmapped_expanded, missing_in_expanded,
                   run, hist, fs0, args>>

\* The text branch: both files are decoded, the expanded text is substituted
\* and compared with the template's.
Pass1Text(exp_path) ==
    /\ pc = "pass1"
    /\ WalkNext(exp_root, todo, exp_path)
    /\ Mapped(exp_path)
    /\ ~IsReadme(Last(exp_path))
    /\ ~is_binary(exp_path)
    /\ LET tpl_file == Resolve(TplPath(exp_path))
       IN  /\ Decodes(fs[exp_path])
           /\ CanRead(tpl_file)
           /\ Decodes(fs[tpl_file])
           /\ LET new_text == NewText(read_text(exp_path))
                  old_text == read_text(tpl_file)
                  diff == print_color_diff(old_text, new_text, TplRel(exp_path))
                  write == Event("write_text", TplRel(exp_path), tpl_file, exp_path)
              IN  IF TextDiffers(old_text, new_text)
                  THEN IF ~TextWrites
                       THEN /\ log' = log \o diff
                            /\ fs' = fs
                       ELSE /\ log' = log \o diff \o <<write>>
                            /\ fs' = [fs EXCEPT ![tpl_file] = EncodeText(new_text)]
                  ELSE UNCHANGED <<fs, log>>
    /\ todo' = todo \ {exp_path}
    /\ UNCHANGED <<dirs, noperm, tmpl_root, exp_root, argv_var, diff_only, pc,
                   render2tpl, tpl2render, unmapped_expanded, missing_in_expanded,
                   run, hist, fs0, args>>

\* A read or a write of the pair raises (PermissionError, UnicodeDecodeError):
\* nothing catches it and the run ends with a traceback.
Pass1Raises(exp_path) ==
    /\ pc = "pass1"
    /\ WalkNext(exp_root, todo, exp_path)
    /\ Mapped(exp_path)
    /\ ~IsReadme(Last(exp_path))
    /\ LET tpl_file == Resolve(TplPath(exp_path))
       IN  IF is_binary(exp_path)
           THEN ~CanRead(exp_path) \/ ~CanRead(tpl_file)
           ELSE ~Decodes(fs[exp_path]) \/ ~CanRead(tpl_file) \/ ~Decodes(fs[tpl_file])
    /\ pc' = "raised"
    /\ log' = Append(log, Event("traceback", TplRel(exp_path), NoPath, exp_path))
    /\ UNCHANGED <<world, locals, diff_only, run, hist, fs0, args>>

\* The walk of the expanded tree is over: pass 2 starts its walk.
Pass1Done ==
    /\ pc = "pass1"
    /\ todo = {}
    /\ pc' = "pass2"
    /\ todo' = FilesUnder(tmpl_root)
    /\ UNCHANGED <<world, diff_only, render2tpl, tpl2render, unmapped_expanded,
                   missing_in_expanded, log, run, hist, fs0, args>>

Pass2ExpRelUntranslated(tpl_rel) == tpl_rel

\* exp_rel = relpath_substitute(tpl_rel, tpl2render)
Pass2ExpRel(tpl_rel) == relpath_substitute(tpl_rel, tpl2render)

\* if not (exp_root / exp_rel).is_file()
Missing(tpl_rel) == ~is_file(Join(exp_root, Pass2ExpRel(tpl_rel)))

\* One iteration of pass 2 over the template file tpl_path.
Pass2File(tpl_path) ==
    /\ pc = "pass2"
    /\ WalkNext(tmpl_root, todo, tpl_path)
    /\ LET tpl_rel == RelativeTo(tpl_path, tmpl_root)
       IN  missing_in_expanded' =
              IF Missing(tpl_rel)
              THEN Append(missing_in_expanded, tpl_rel)
              ELSE missing_in_expanded
    /\ todo' = todo \ {tpl_path}
    /\ UNCHANGED <<world, diff_only, pc, render2tpl, tpl2render, unmapped_expanded,
                   log, run, hist, fs0, args>>

\* The printable ASCII characters (but the double quote, the backslash and the
\* backquote) in the order of their code points, which is the order Python
\* compares strings by.
Printable ==
    <<" ", "!", "#", "$", "%", "&", "'", "(", ")", "*", "+", ",", "-", ".", "/",
      "0", "1", "2", "3", "4", "5", "6", "7", "8", "9", ":", ";", "<", "=", ">", "?",
      "@", "A", "B", "C", "D", "E", "F", "G", "H", "I", "J", "K", "L", "M", "N", "O",
      "P", "Q", "R", "S", "T", "U", "V", "W", "X", "Y", "Z", "[", "]", "^", "_",
      "a", "b", "c", "d", "e", "f", "g", "h", "i", "j", "k", "l", "m", "n", "o",
      "p", "q", "r", "s", "t", "u", "v", "w", "x", "y", "z", "{", "|", "}", "~">>

CodeOrder(c) == CHOOSE i \in 1..Len(Printable) : Printable[i] = c

\* a < b for two sequences compared element by element, the shorter first
\* when it is a prefix of the other (str < str, and list < list of path parts).
LexLess(a, b, ElemLess(_, _)) ==
    \E k \in 1..(Len(a) + 1) :
        /\ k <= Len(b)
        /\ \A h \in 1..(k - 1) : a[h] = b[h]
        /\ k > Len(a) \/ ElemLess(a[k], b[k])

CharLess(c, d) == CodeOrder(c) < CodeOrder(d)
StrLess(a, b) == LexLess(a, b, CharLess)

\* Path.__lt__: the parts of the two paths are compared as lists of strings.
PathLess(p, q) == LexLess(p, q, StrLess)

\* sorted(paths): ascending and stable.
sorted(paths) ==
    LET Rank(i) == 1 + Cardinality({j \in 1..Len(paths) :
                                      \/ PathLess(paths[j], paths[i])
                                      \/ paths[j] = paths[i] /\ j < i})
    IN  [r \in 1..Len(paths) |-> paths[CHOOSE i \in 1..Len(paths) : Rank(i) = r]]

ListLinesHeadingAlways(heading, entry, paths) ==
    <<Event(heading, <<>>, NoPath, NoPath)>>
        \o [i \in 1..Len(paths) |-> Event(entry, sorted(paths)[i], NoPath, NoPath)]

\* if paths: print(heading); for p in sorted(paths): print(f"  {p}")
ListLines(heading, entry, paths) ==
    Only({IF v = <<>> THEN <<>>
          ELSE <<Event(heading, <<>>, NoPath, NoPath)>>
                  \o [i \in 1..Len(v) |-> Event(entry, sorted(v)[i], NoPath, NoPath)] :
          v \in {paths}})

\* The report, printed when the walk of the template tree is over.
ReportLines ==
    ListLines("unmapped_list", "unmapped_entry", unmapped_expanded)
    \o ListLines("missing_list", "missing_entry", missing_in_expanded)
    \o (IF diff_only THEN <<Event("no_files_modified", <<>>, NoPath, NoPath)>>
        ELSE IF unmapped_expanded = <<>> /\ missing_in_expanded = <<>>
             THEN <<Event("fully_in_sync", <<>>, NoPath, NoPath)>>
             ELSE <<>>)

Report ==
    /\ pc = "pass2"
    /\ todo = {}
    /\ log' = log \o ReportLines
    /\ pc' = "done"
    /\ UNCHANGED <<world, locals, diff_only, run, hist, fs0, args>>

\* What is kept of a run when the next one starts: its mode, the file system
\* it left, what it printed and listed, how it ended, and whether the next run
\* starts on what it left ("again") or on an earlier file system ("original").
RunRecord(then) ==
    [diff_only |-> diff_only, fs |-> fs,
     printed |-> SeqToSet(log),
     unmapped |-> SeqToSet(unmapped_expanded),
     missing |-> SeqToSet(missing_in_expanded),
     ended |-> pc, then |-> then]

\* The tool is run again on the trees as the last run left them, with the
\* same roots and bindings, in either mode.
RunAgain ==
    /\ pc \in {"done", "killed"}
    /\ run < MaxRuns
    /\ hist' = Append(hist, RunRecord("again"))
    /\ run' = run + 1
    /\ diff_only' \in BOOLEAN
    /\ pc' = "start"
    /\ log' = <<>>
    /\ render2tpl' = <<>>
    /\ tpl2render' = <<>>
    /\ todo' = {}
    /\ unmapped_expanded' = <<>>
    /\ missing_in_expanded' = <<>>
    /\ UNCHANGED <<world, fs0, args>>

Next ==
    \/ StartBadTemplateRoot
    \/ StartBadExpandedRoot
    \/ StartBadVar
    \/ Start
    \/ \E f \in todo : Pass1Unmapped(f)
    \/ \E f \in todo : Pass1Readme(f)
    \/ \E f \in todo : Pass1Binary(f)
    \/ \E f \in todo : Pass1Text(f)
    \/ \E f \in todo : Pass1Raises(f)
    \/ Pass1Done
    \/ \E f \in todo : Pass2File(f)
    \/ Report
    \/ RunAgain

Spec == Init /\ [][Next]_vars

\* The status the process ends with: sys.exit(message) and an uncaught
\* exception give 1, the return of main() gives 0; -1 while it runs.
ExitStatusAlwaysZero == IF pc \in {"exit", "raised", "done"} THEN 0 ELSE -1

ExitStatusAlwaysOne == IF pc \in {"exit", "raised", "done"} THEN 1 ELSE -1

ExitStatus ==
    IF pc \in {"exit", "raised"} THEN 1
    ELSE IF pc = "done" THEN 0
    ELSE -1

(***************************************************************************)
(* Interrupted runs.  A non-preview run is killed between two steps of its *)
(* loops, that is after some prefix of its writes (lines 185 and 193); the *)
(* tool is then run again (RunAgain).  To compare the outcome with that of *)
(* an uninterrupted run, the file system is put back as the killed run     *)
(* found it and the tool is run once more.                                 *)
(***************************************************************************)
Interrupt ==
    /\ pc \in {"pass1", "pass2"}
    /\ ~diff_only
    /\ pc' = "killed"
    /\ UNCHANGED <<world, locals, diff_only, log, run, hist, fs0, args>>

\* The file system the run numbered r started from, for a run started by
\* RunAgain or the first run.
StartOfRun(r) == IF r = 1 THEN fs0 ELSE hist[r - 1].fs

\* After a killed run and a finished non-preview run that followed it: the
\* file system is put back to what the killed run started from, and the tool
\* is run in non-preview mode.
RunFromOriginal ==
    /\ pc = "done"
    /\ ~diff_only
    /\ run >= 2
    /\ hist[run - 1].ended = "killed"
    /\ hist[run - 1].then = "again"
    /\ (run >= 3 => hist[run - 2].then = "again")
    /\ hist' = Append(hist, RunRecord("original"))
    /\ fs' = StartOfRun(run - 1)
    /\ run' = run + 1
    /\ pc' = "start"
    /\ log' = <<>>
    /\ render2tpl' = <<>>
    /\ tpl2render' = <<>>
    /\ todo' = {}
    /\ unmapped_expanded' = <<>>
    /\ missing_in_expanded' = <<>>
    /\ UNCHANGED <<dirs, noperm, tmpl_root, exp_root, argv_var, diff_only, fs0, args>>

NextCrash ==
    \/ Next
    \/ Interrupt
    \/ RunFromOriginal

SpecCrash == Init /\ [][NextCrash]_vars

\* The process is scheduled: main() is single-threaded and every step it can
\* take (and every further run of the tool) is taken in the end.
SpecLive == Spec /\ WF_vars(Next)

(***************************************************************************)
(* The helper functions on their own: make_maps on a list of bindings,     *)
(* then substitute on a text and relpath_substitute on the relative path   *)
(* the text spells.  No file is involved.                                  *)
(***************************************************************************)
Alphabet == {"a", "b", "c", "s", "x", "/"}

RECURSIVE TextsOfLen(_)
TextsOfLen(n) ==
    IF n = 0 THEN {<<>>}
    ELSE {Append(t, c) : t \in TextsOfLen(n - 1), c \in Alphabet}

Texts == UNION {TextsOfLen(n) : n \in 0..MaxTextLen}

\* The value "ab" occurs in the value "xab" and in neither placeholder; the
\* value "c" occurs in the value "sc" and in both placeholders.
VarLonger == << <<"s", "=", "a", "b">>, <<"p", "=", "x", "a", "b">> >>

\* The shorter name and the shorter value come first: both tables are
\* reordered by the sort.
VarShortFirst == << <<"s", "=", "x">>, <<"s", "p", "=", "x", "a">> >>

\* One value under two names, and a binding with nothing before the "=".
VarShared == << <<"a", "=", "x">>, <<"b", "=", "x">> >>
VarNoName == << <<"=", "x">> >>

\* A value that holds a "/", and a binding with nothing after the "=".
VarSlashValue == << <<"d", "=", "a", "/", "b">> >>
VarNoValue == << <<"e", "=">> >>

\* A value that is the name of the other binding: "s" occurs in the placeholder
\* of s, which the earlier pair inserts.
VarValueIsName == << <<"s", "=", "c">>, <<"p", "=", "s">> >>

VarLists ==
    {VarGreeting, VarTwice, VarNested, VarLonger, VarShortFirst, VarShared, VarNoName,
     VarSlashValue, VarNoValue, VarValueIsName}

\* Template-side texts: up to MaxTextLen pieces, each the placeholder of the
\* first binding, a letter or a "/".
TplPieces(specs) == {Placeholder(SpecName(specs[1])), <<"a">>, <<"/">>}

RECURSIVE TplTextsOfLen(_, _)
TplTextsOfLen(specs, n) ==
    IF n = 0 THEN {<<>>}
    ELSE {t \o c : t \in TplTextsOfLen(specs, n - 1), c \in TplPieces(specs)}

TplTexts(specs) == UNION {TplTextsOfLen(specs, n) : n \in 0..MaxTextLen}

\* The relative path is the one the text spells, "/" between its components.
InitFn ==
    /\ argv_var \in VarLists
    /\ arg_old = <<>>
    /\ arg_text \in Texts \cup TplTexts(argv_var)
    /\ arg_rel = PathOf(<<arg_text>>)
    /\ ~IsAbsolute(arg_rel)
    /\ result = NoResult
    /\ pc = "call_make_maps"
    /\ fs = FsOf({})
    /\ dirs = {}
    /\ noperm = {}
    /\ tmpl_root = TDir
    /\ exp_root = EDir
    /\ diff_only = FALSE
    /\ render2tpl = <<>>
    /\ tpl2render = <<>>
    /\ todo = {}
    /\ unmapped_expanded = <<>>
    /\ missing_in_expanded = <<>>
    /\ log = <<>>
    /\ run = 1
    /\ hist = <<>>
    /\ fs0 = fs

CallMakeMaps ==
    /\ pc = "call_make_maps"
    /\ ~MakeMapsExits(argv_var)
    /\ render2tpl' = MakeRender2Tpl(argv_var)
    /\ tpl2render' = MakeTpl2Render(argv_var)
    /\ pc' = "call_substitute"
    /\ UNCHANGED <<world, fs0, args, diff_only, todo, unmapped_expanded,
                   missing_in_expanded, log, run, hist>>

CallSubstitute ==
    /\ pc = "call_substitute"
    /\ result' = [result EXCEPT !.text = substitute(arg_text, render2tpl)]
    /\ pc' = "call_relpath_substitute"
    /\ UNCHANGED <<world, fs0, arg_old, arg_text, arg_rel, locals, diff_only, log, run, hist>>

CallRelpathSubstitute ==
    /\ pc = "call_relpath_substitute"
    /\ result' = [result EXCEPT !.rel = relpath_substitute(arg_rel, render2tpl)]
    /\ pc' = "returned"
    /\ UNCHANGED <<world, fs0, arg_old, arg_text, arg_rel, locals, diff_only, log, run, hist>>

\* exp_rel = relpath_substitute(tpl_rel, tpl2render), the call of pass 2
CallRelpathSubstituteTpl2Render ==
    /\ pc = "returned"
    /\ result' = [result EXCEPT !.exp_rel = relpath_substitute(arg_rel, tpl2render)]
    /\ pc' = "finished"
    /\ UNCHANGED <<world, fs0, arg_old, arg_text, arg_rel, locals, diff_only, log, run, hist>>

NextFn ==
    \/ CallMakeMaps
    \/ CallSubstitute
    \/ CallRelpathSubstitute
    \/ CallRelpathSubstituteTpl2Render

SpecFn == InitFn /\ [][NextFn]_vars

(***************************************************************************)
(* print_color_diff on its own: the lines difflib.unified_diff yields for  *)
(* two texts, and the colour each is printed in.  The texts are short (at  *)
(* most MaxDiffLen characters), so a diff is one hunk that holds every     *)
(* line of both texts: the three lines of context never cut anything off.  *)
(***************************************************************************)
MaxDiffLen == 3

DiffAlphabet == {"a", "+", "-", LF}

RECURSIVE DiffTextsOfLen(_)
DiffTextsOfLen(n) ==
    IF n = 0 THEN {<<>>}
    ELSE {Append(t, c) : t \in DiffTextsOfLen(n - 1), c \in DiffAlphabet}

DiffTexts == UNION {DiffTextsOfLen(n) : n \in 0..MaxDiffLen}

\* str.splitlines(keepends=True) of a text whose only line boundary is "\n"
RECURSIVE splitlines(_)
splitlines(s) ==
    LET ends == {k \in 1..Len(s) : s[k] = LF}
    IN  IF s = <<>> THEN <<>>
        ELSE IF ends = {} THEN <<s>>
        ELSE LET k == CHOOSE h \in ends : \A g \in ends : h <= g
             IN  <<SubSeq(s, 1, k)>> \o splitlines(SubSeq(s, k + 1, Len(s)))

\* The blocks <<i, j, k>> with a[i .. i+k-1] = b[j .. j+k-1], k > 0.
Matches(a, b) ==
    {m \in (1..Len(a)) \X (1..Len(b)) \X (1..Len(a)) :
        /\ m[1] + m[3] - 1 <= Len(a)
        /\ m[2] + m[3] - 1 <= Len(b)
        /\ SubSeq(a, m[1], m[1] + m[3] - 1) = SubSeq(b, m[2], m[2] + m[3] - 1)}

\* SequenceMatcher.find_longest_match: the longest block, of those the one
\* that starts earliest in a, of those the one that starts earliest in b.
find_longest_match(a, b) ==
    CHOOSE m \in Matches(a, b) : \A o \in Matches(a, b) :
        \/ m[3] > o[3]
        \/ m[3] = o[3] /\ m[1] < o[1]
        \/ m[3] = o[3] /\ m[1] = o[1] /\ m[2] <= o[2]

Tagged(tag, lines) == [i \in 1..Len(lines) |-> [tag |-> tag, line |-> lines[i]]]

\* The lines of the hunk: get_matching_blocks splits both sequences at the
\* longest match and goes on to its left and to its right; what lies between
\* two matches is printed as the lines of a, "-", then the lines of b, "+".
RECURSIVE DiffBody(_, _)
DiffBody(a, b) ==
    IF Matches(a, b) = {} THEN Tagged("-", a) \o Tagged("+", b)
    ELSE LET m == find_longest_match(a, b)
         IN  DiffBody(SubSeq(a, 1, m[1] - 1), SubSeq(b, 1, m[2] - 1))
                \o Tagged(" ", SubSeq(a, m[1], m[1] + m[3] - 1))
                \o DiffBody(SubSeq(a, m[1] + m[3], Len(a)), SubSeq(b, m[2] + m[3], Len(b)))

Digit(n) == <<"0", "1", "2", "3", "4", "5", "6", "7", "8", "9">>[n + 1]

\* _format_range_unified(0, length)
FormatRange(length) ==
    IF length = 1 THEN <<"1">>
    ELSE IF length = 0 THEN <<"0", ",", "0">>
    ELSE <<"1", ",", Digit(length)>>

\* difflib.unified_diff(a, b, fromfile=f"a/{rel}", tofile=f"b/{rel}", lineterm="")
unified_diff(a, b, rel) ==
    IF a = b THEN <<>>
    ELSE << <<"-", "-", "-", " ", "a", "/">> \o JoinedFrom(rel, 1),
            <<"+", "+", "+", " ", "b", "/">> \o JoinedFrom(rel, 1),
            <<"@", "@", " ", "-">> \o FormatRange(Len(a)) \o <<" ", "+">>
                \o FormatRange(Len(b)) \o <<" ", "@", "@">> >>
         \o [i \in 1..Len(DiffBody(a, b)) |->
                <<DiffBody(a, b)[i].tag>> \o DiffBody(a, b)[i].line]

\* The colour a line of the diff is printed in (lines 135-140).
Colour(line) ==
    IF StartsWith(line, <<"+">>) /\ ~StartsWith(line, <<"+", "+", "+">>) THEN "GREEN"
    ELSE IF StartsWith(line, <<"-">>) /\ ~StartsWith(line, <<"-", "-", "-">>) THEN "RED"
    ELSE "none"

\* What print_color_diff prints, line by line.
ColouredDiff(old, new, rel) ==
    LET diff == unified_diff(splitlines(old), splitlines(new), rel)
    IN  [i \in 1..Len(diff) |-> [colour |-> Colour(diff[i]), line |-> diff[i]]]

InitDiff ==
    /\ arg_old \in DiffTexts
    /\ arg_text \in DiffTexts
    /\ arg_rel = <<<<"g">>>>
    /\ result = NoResult
    /\ pc = "call_print_color_diff"
    /\ argv_var = <<>>
    /\ fs = FsOf({})
    /\ dirs = {}
    /\ noperm = {}
    /\ tmpl_root = TDir
    /\ exp_root = EDir
    /\ diff_only = FALSE
    /\ render2tpl = <<>>
    /\ tpl2render = <<>>
    /\ todo = {}
    /\ unmapped_expanded = <<>>
    /\ missing_in_expanded = <<>>
    /\ log = <<>>
    /\ run = 1
    /\ hist = <<>>
    /\ fs0 = fs

CallPrintColorDiff ==
    /\ pc = "call_print_color_diff"
    /\ result' = [result EXCEPT !.printed = ColouredDiff(arg_old, arg_text, arg_rel)]
    /\ pc' = "printed"
    /\ UNCHANGED <<world, fs0, arg_old, arg_text, arg_rel, locals, diff_only, log, run, hist>>

NextDiff == CallPrintColorDiff

SpecDiff == InitDiff /\ [][NextDiff]_vars

(***************************************************************************)
(* What the claims speak of.                                               *)
(***************************************************************************)
\* The file system when this run of main() started.
RunStartFs == IF run = 1 THEN fs0 ELSE hist[run - 1].fs

WriteOps == {"write_text", "write_bytes"}

\* The expanded files pass 1 has dealt with in this run.
Pass1Visited ==
    IF pc \in {"pass1", "raised"} THEN FilesUnder(exp_root) \ todo
    ELSE IF pc \in {"pass2", "done"} THEN FilesUnder(exp_root)
    ELSE {}

\* The expanded file has no template counterpart: its translated path names no
\* regular file under the template root.
NoCounterpart(exp_path) ==
    ~is_file(Join(tmpl_root,
                  relpath_substitute(RelativeTo(exp_path, exp_root), render2tpl)))

Excluded(exp_rel) == InParts(VENV, exp_rel) \/ InParts(MYPY_CACHE, exp_rel)

\* What the step printed and wrote.
NewEvents == SubSeq(log', Len(log) + 1, Len(log'))

\* The step is pass 1's iteration over the expanded file f.
Pass1StepOn(f) ==
    /\ pc = "pass1"
    /\ f \in todo
    /\ \/ f \notin todo'
       \/ pc' = "raised" /\ log' # log /\ log'[Len(log')].src = f

(***************************************************************************)
(* C1.  Preview mode is read-only: in every state of a run with            *)
(* --diff-only, every file under the template root holds the bytes it held *)
(* when the run started, and the files are the same.                       *)
(***************************************************************************)
C1_PreviewReadOnly ==
    diff_only =>
        /\ DOMAIN fs = DOMAIN RunStartFs
        /\ \A f \in FilesUnder(tmpl_root) : fs[f] = RunStartFs[f]

\* A finished preview run that printed a diff and a binary notice.
C1_Witness ==
    /\ diff_only
    /\ pc = "done"
    /\ \E i, j \in 1..Len(log) : log[i].op = "diff" /\ log[j].op = "binary_differs"

(***************************************************************************)
(* C2.  No new files: the files under the template root are those of the   *)
(* start, a write goes only to a template path that was a regular file,    *)
(* and an expanded file without a template counterpart is recorded as      *)
(* unmapped instead of being written.                                      *)
(***************************************************************************)
C2_KeepsFileSet ==
    /\ {f \in DOMAIN fs : IsPrefix(tmpl_root, f)} = {f \in DOMAIN fs0 : IsPrefix(tmpl_root, f)}
    /\ \A i \in 1..Len(log) :
          log[i].op \in WriteOps =>
              /\ log[i].path = Resolve(Join(tmpl_root, log[i].rel))
              /\ log[i].path \in DOMAIN RunStartFs
    /\ \A f \in Pass1Visited :
          NoCounterpart(f) => \A i \in 1..Len(log) : log[i].op \in WriteOps => log[i].src # f

\* The claim as stated: every expanded file without a counterpart is recorded.
C2_Original ==
    /\ C2_KeepsFileSet
    /\ \A f \in Pass1Visited :
          NoCounterpart(f) => RelativeTo(f, exp_root) \in SeqToSet(unmapped_expanded)

\* As amended: it is recorded unless a component of its path is .venv or
\* .mypy_cache, and then it is dropped.
C2_NoNewFiles ==
    /\ C2_KeepsFileSet
    /\ \A f \in Pass1Visited :
          NoCounterpart(f) =>
              (RelativeTo(f, exp_root) \in SeqToSet(unmapped_expanded)
                  <=> ~Excluded(RelativeTo(f, exp_root)))

\* A finished non-preview run that recorded one file and dropped another.
C2_Witness ==
    /\ ~diff_only
    /\ pc = "done"
    /\ unmapped_expanded # <<>>
    /\ \E f \in FilesUnder(exp_root) : NoCounterpart(f) /\ Excluded(RelativeTo(f, exp_root))

(***************************************************************************)
(* C3.  Idempotence: a non-preview run that follows a finished non-preview *)
(* run on the same trees writes nothing and prints no diff.                *)
(***************************************************************************)
C3_Idempotent ==
    (run >= 2 /\ ~diff_only /\ ~hist[run - 1].diff_only) =>
        \A i \in 1..Len(log) : log[i].op \notin (WriteOps \cup {"diff"})

(***************************************************************************)
(* C4.  Text reconciliation result: when a non-preview run has finished,   *)
(* the template counterpart of every expanded text file not named          *)
(* README.md holds substitute(expanded text, render2tpl).                  *)
(***************************************************************************)
C4_TextResult ==
    (pc = "done" /\ ~diff_only) =>
        \A f \in FilesUnder(exp_root) :
            (~is_binary(f) /\ Last(f) # README /\ ~NoCounterpart(f)) =>
                read_text(Resolve(TplPath(f))) = substitute(read_text(f), render2tpl)

(***************************************************************************)
(* C5.  Longest-match precedence: when a bound value occurs inside a       *)
(* longer bound value, a text or path component that is the longer value   *)
(* comes out as the longer value's placeholder, in one piece, and the      *)
(* shorter value's placeholder is not in the output.                       *)
(***************************************************************************)
Occurs(s, t) == \E k \in 1..(Len(t) - Len(s) + 1) : SubSeq(t, k, k + Len(s) - 1) = s

C5_LongestMatch ==
    pc = "returned" =>
        \A i, j \in 1..Len(argv_var) :
            LET short == SpecValue(argv_var[i])
                long == SpecValue(argv_var[j])
                wanted == Placeholder(SpecName(argv_var[j]))
            IN  (short # <<>> /\ Len(short) < Len(long) /\ Occurs(short, long)
                    /\ arg_text = long) =>
                    /\ result.text = wanted
                    /\ result.rel = <<wanted>>
                    /\ ~Occurs(Placeholder(SpecName(argv_var[i])), result.text)

(***************************************************************************)
(* C6.  README exemption: pass 1's iteration over an expanded file named   *)
(* README.md prints nothing, writes nothing and reads neither file (it     *)
(* goes on even when the file cannot be read), and no step changes a       *)
(* template file named README.md.                                          *)
(***************************************************************************)
C6_ReadmeExempt ==
    [][ /\ \A f \in todo :
              (Pass1StepOn(f) /\ Last(f) = README) =>
                  (fs' = fs /\ log' = log /\ pc' = "pass1")
        /\ \A f \in FilesUnder(tmpl_root) : Last(f) = README => fs'[f] = fs[f] ]_vars

\* A finished non-preview run over a README.md that differs from the
\* template's README.md.
C6_Witness ==
    /\ ~diff_only
    /\ pc = "done"
    /\ \E f \in FilesUnder(exp_root) :
          /\ Last(f) = README
          /\ ~NoCounterpart(f)
          /\ fs[f] # fs[Resolve(TplPath(f))]

(***************************************************************************)
(* C7.  Binary handling: an expanded file with a NUL among its first 16    *)
(* KiB, or one is_binary cannot open, is never substituted or diffed; it   *)
(* is compared with its counterpart byte for byte, a differing template    *)
(* file takes the expanded file's bytes in non-preview mode and an equal   *)
(* one is left alone.                                                      *)
(***************************************************************************)
TakenForBinary(f) ==
    \/ f \in noperm
    \/ \E i \in 1..Len(fs[f]) : i <= TEXT_CHUNK /\ fs[f][i] = NUL

NoTextOutput == \A i \in 1..Len(NewEvents) : NewEvents[i].op \notin {"diff", "write_text"}

ComparedAsBytes(f) ==
    LET tpl_file == Resolve(TplPath(f))
    IN  /\ pc' = "pass1"
        /\ IF fs[tpl_file] = fs[f] THEN fs' = fs /\ log' = log
           ELSE IF diff_only
                THEN fs' = fs /\ Len(NewEvents) = 1 /\ NewEvents[1].op = "binary_differs"
                ELSE fs' = [fs EXCEPT ![tpl_file] = fs[f]]

C8_UnmappedExact ==
    pc \in {"pass2", "done"} =>
        LET U == {f \in FilesUnder(exp_root) :
                     NoCounterpart(f) /\ ~Excluded(RelativeTo(f, exp_root))}
        IN  /\ SeqToSet(unmapped_expanded) = {RelativeTo(f, exp_root) : f \in U}
            /\ Len(unmapped_expanded) = Cardinality(U)
            /\ \A i \in 1..Len(log) : log[i].op \in WriteOps => log[i].src \notin U

\* Pass 1 is over; it recorded one file and dropped one under .mypy_cache.
C8_Witness ==
    /\ pc = "pass2"
    /\ Len(unmapped_expanded) = 1
    /\ \E f \in FilesUnder(exp_root) :
          NoCounterpart(f) /\ InParts(MYPY_CACHE, RelativeTo(f, exp_root))

(***************************************************************************)
(* C9.  Missing reporting: when pass 2 is over, missing_in_expanded holds, *)
(* once each, exactly the template files whose template->render translated *)
(* path names no regular file under the expanded root, and no step of      *)
(* pass 2 changes a file.                                                  *)
(***************************************************************************)
C9_MissingExact ==
    /\ [](pc = "done" =>
            LET M == {f \in FilesUnder(tmpl_root) :
                         ~is_file(Join(exp_root,
                                       relpath_substitute(RelativeTo(f, tmpl_root),
                                                          tpl2render)))}
            IN  /\ SeqToSet(missing_in_expanded) = {RelativeTo(f, tmpl_root) : f \in M}
                /\ Len(missing_in_expanded) = Cardinality(M))
    /\ [][pc = "pass2" => fs' = fs]_vars

\* A finished non-preview run that wrote in pass 1, and whose pass 2 found one
\* template file missing and another present.
C9_Witness ==
    /\ pc = "done"
    /\ ~diff_only
    /\ \E i \in 1..Len(log) : log[i].op \in WriteOps
    /\ Len(missing_in_expanded) = 1
    /\ Cardinality(FilesUnder(tmpl_root)) = 2

(***************************************************************************)
(* C10.  The expanded tree is never modified: every file under the         *)
(* expanded root holds the bytes it held before the first run, whatever    *)
(* the two roots are.                                                      *)
(***************************************************************************)
C10_ExpandedUntouched ==
    \A f \in FilesUnder(exp_root) : fs[f] = fs0[f]

(***************************************************************************)
(* C11.  Fatal configuration errors: when a root is not a directory or a   *)
(* --var holds no "=", the run goes from its start straight to a non-zero  *)
(* exit: one message is printed, no file is changed, no walk has begun and *)
(* no table, list, diff or report exists.                                  *)
(***************************************************************************)
BadConfig ==
    \/ tmpl_root \notin dirs
    \/ exp_root \notin dirs
    \/ \E i \in 1..Len(argv_var) : \A k \in 1..Len(argv_var[i]) : argv_var[i][k] # "="

C11_FatalConfig ==
    /\ [][(pc = "start" /\ BadConfig) => pc' = "exit"]_vars
    /\ [](pc = "exit" =>
            /\ ExitStatus # 0
            /\ fs = RunStartFs
            /\ todo = {}
            /\ render2tpl = <<>> /\ tpl2render = <<>>
            /\ unmapped_expanded = <<>> /\ missing_in_expanded = <<>>
            /\ Len(log) = 1
            /\ log[1].op \in {"not_a_directory", "var_expects_name_value"})

\* The run has exited on a --var without "=" that follows a good one, with
\* files in both trees.
C11_Witness ==
    /\ pc = "exit"
    /\ Len(argv_var) = 2
    /\ log[1].op = "var_expects_name_value"
    /\ FilesUnder(tmpl_root) # {} /\ FilesUnder(exp_root) # {}

(***************************************************************************)
(* C12.  Per-file error isolation: a run in which a read of one file pair  *)
(* failed still ends having dealt with every other expanded file, walked   *)
(* the template tree and printed the report, with a non-zero status.       *)
(***************************************************************************)
ReadFailed == \E i \in 1..Len(log) : log[i].op = "traceback"

C12_ErrorIsolation ==
    (pc \in {"exit", "raised", "done"} /\ ReadFailed) =>
        /\ todo \subseteq {log[i].src : i \in {k \in 1..Len(log) : log[k].op = "traceback"}}
        /\ \E i \in 1..Len(log) :
              log[i].op \in {"unmapped_list", "missing_list", "no_files_modified",
                             "fully_in_sync"}
        /\ ExitStatus # 0

(***************************************************************************)
(* C13.  Nothing is changed silently: every write to a template file comes *)
(* after a diff printed in the same run for the same file, and no file     *)
(* changes but by such a write.                                            *)
(***************************************************************************)
OnlyWritesChangeFiles ==
    [][fs' # fs =>
          /\ Len(log') > Len(log)
          /\ log'[Len(log')].op \in WriteOps
          /\ fs' = [fs EXCEPT ![log'[Len(log')].path] = fs'[log'[Len(log')].path]]]_vars

\* The claim as stated: of every write, the binary ones too.
C13_Original ==
    /\ OnlyWritesChangeFiles
    /\ [](\A i \in 1..Len(log) :
            log[i].op \in WriteOps =>
                \E j \in 1..(i - 1) : log[j].op = "diff" /\ log[j].rel = log[i].rel)

\* As amended: a text write comes right after the diff of its file; a binary
\* write comes with no output of its own, and a binary file prints in preview
\* mode only.
C13_DiffBeforeTextWrite ==
    /\ OnlyWritesChangeFiles
    /\ [](\A i \in 1..Len(log) :
            /\ log[i].op = "write_text" =>
                  i > 1 /\ log[i - 1].op = "diff" /\ log[i - 1].rel = log[i].rel
            /\ log[i].op = "write_bytes" =>
                  /\ ~diff_only
                  /\ i > 1 => log[i - 1].op \notin {"diff", "binary_differs"}
            /\ log[i].op = "binary_differs" => diff_only)

\* A finished non-preview run has written a text file and a binary file.
C13_Witness ==
    /\ pc = "done"
    /\ ~diff_only
    /\ \E i, j \in 1..Len(log) : log[i].op = "write_text" /\ log[j].op = "write_bytes"

(***************************************************************************)
(* C14.  Normal termination: a run whose roots are directories and whose   *)
(* --var all hold "=" ends, unless a read fails, having returned from      *)
(* main() with status 0; pass 2 starts when pass 1 has walked every        *)
(* expanded file, the report is printed when pass 2 has walked every       *)
(* template file, and the lists may hold entries.                          *)
(***************************************************************************)
ReportOps ==
    {"unmapped_list", "unmapped_entry", "missing_list", "missing_entry",
     "no_files_modified", "fully_in_sync"}

C14_NormalTermination ==
    /\ ((pc = "start" /\ ~BadConfig) ~> (pc = "done" \/ pc = "raised"))
    /\ [](pc = "raised" => ReadFailed)
    /\ [](pc = "done" => ExitStatus = 0 /\ todo = {})
    /\ [][(pc' = "pass1" /\ pc # "pass1") =>
             (pc = "start" /\ todo' = FilesUnder(exp_root))]_vars
    /\ [][(pc' = "pass2" /\ pc # "pass2") =>
             (pc = "pass1" /\ todo = {} /\ todo' = FilesUnder(tmpl_root))]_vars
    /\ [][(pc' = "done" /\ pc # "done") => (pc = "pass2" /\ todo = {})]_vars
    /\ [][(\E i \in 1..Len(log') : log'[i].op \in ReportOps) => pc' = "done"]_vars

\* A run has returned with entries in both lists.
C14_Witness ==
    /\ pc = "done"
    /\ ExitStatus = 0
    /\ unmapped_expanded # <<>>
    /\ missing_in_expanded # <<>>
    /\ ~diff_only

(***************************************************************************)
(* C15.  Convergence after a crash: a non-preview run is killed after some *)
(* prefix of its writes and the tool is run again, to its end, on the      *)
(* expanded tree the killed run found; the template tree is then the one   *)
(* an uninterrupted run from the killed run's starting point leaves.       *)
(***************************************************************************)
ComparedWithUninterrupted ==
    /\ pc = "done"
    /\ run >= 3
    /\ hist[run - 1].then = "original"

ExpandedUnchangedByKilledRun ==
    \A f \in FilesUnder(exp_root) : hist[run - 2].fs[f] = StartOfRun(run - 2)[f]

SameTemplateTree(F, G) ==
    /\ DOMAIN F = DOMAIN G
    /\ \A f \in FilesUnder(tmpl_root) : F[f] = G[f]

C15_CrashConvergence ==
    (ComparedWithUninterrupted /\ ExpandedUnchangedByKilledRun) =>
        SameTemplateTree(hist[run - 1].fs, fs)

(***************************************************************************)
(* C16.  Last-wins for repeated names: once make_maps has returned, the    *)
(* value of a binding whose name is bound again later in the --var         *)
(* sequence, and which no last binding of a name binds, is in neither      *)
(* table: not a key of render2tpl, not a value of tpl2render.              *)
(***************************************************************************)
TablesBuilt == pc \in {"call_substitute", "call_relpath_substitute", "returned", "finished"}

BoundAgain(i) ==
    \E j \in (i + 1)..Len(argv_var) : SpecName(argv_var[j]) = SpecName(argv_var[i])

LastBindings == {j \in 1..Len(argv_var) : ~BoundAgain(j)}

C16_LastWins ==
    TablesBuilt =>
        \A i \in 1..Len(argv_var) :
            LET value == SpecValue(argv_var[i])
            IN  (BoundAgain(i) /\ \A j \in LastBindings : SpecValue(argv_var[j]) # value) =>
                    /\ ~HasKey(render2tpl, value)
                    /\ \A e \in 1..Len(tpl2render) : tpl2render[e][2] # value

(***************************************************************************)
(* C17.  Structural inverses: once make_maps has returned, (value ->       *)
(* placeholder) is an entry of render2tpl exactly when (placeholder ->     *)
(* value) is an entry of tpl2render, and the two tables have the same      *)
(* number of entries.                                                      *)
(***************************************************************************)
Items(d) == {d[i] : i \in 1..Len(d)}

Swapped(e) == <<e[2], e[1]>>

C17_Inverses ==
    TablesBuilt =>
        /\ \A e \in Items(render2tpl) : Swapped(e) \in Items(tpl2render)
        /\ \A e \in Items(tpl2render) : Swapped(e) \in Items(render2tpl)
        /\ Len(render2tpl) = Len(tpl2render)

(***************************************************************************)
(* C18.  Table ordering: in each table make_maps returns the key lengths   *)
(* never increase from one entry to the next, and substitute and           *)
(* relpath_substitute apply the pairs in that order: the result is the     *)
(* last pair applied to the result of the pairs before it.                 *)
(***************************************************************************)
NonIncreasing(d) ==
    \A i \in 1..(Len(d) - 1) : Len(d[i][1]) >= Len(d[i + 1][1])

RECURSIVE FirstPairsApplied(_, _, _)
FirstPairsApplied(text, d, n) ==
    IF n = 0 THEN text
    ELSE Replace(FirstPairsApplied(text, d, n - 1), d[n][1], d[n][2])

C18_TableOrder ==
    /\ TablesBuilt => (NonIncreasing(render2tpl) /\ NonIncreasing(tpl2render))
    /\ pc \in {"call_relpath_substitute", "returned"} =>
          result.text = FirstPairsApplied(arg_text, render2tpl, Len(render2tpl))
    /\ pc = "returned" =>
          result.rel = PathOf([i \in 1..Len(arg_rel) |->
                                  FirstPairsApplied(arg_rel[i], render2tpl, Len(render2tpl))])

\* Both tables were reordered by the sort, and the text comes out differently
\* when the pairs are applied in the order of the bindings.
C18_Witness ==
    /\ pc = "returned"
    /\ Len(render2tpl) = 2
    /\ Len(render2tpl[1][1]) > Len(render2tpl[2][1])
    /\ render2tpl[2][1] = SpecValue(argv_var[1])
    /\ Len(tpl2render) = 2
    /\ Len(tpl2render[1][1]) > Len(tpl2render[2][1])
    /\ tpl2render[2][1] = Placeholder(SpecName(argv_var[1]))
    /\ result.text # Replace(Replace(arg_text, render2tpl[2][1], render2tpl[2][2]),
                             render2tpl[1][1], render2tpl[1][2])

(***************************************************************************)
(* C19.  Binding names are never empty: when make_maps has returned its    *)
(* tables (it did not exit), no --var argument has an empty text before    *)
(* its first "=", and no placeholder in either table wraps the empty name. *)
(***************************************************************************)
C19_NamesNotEmpty ==
    TablesBuilt =>
        /\ \A i \in 1..Len(argv_var) : SpecName(argv_var[i]) # <<>>
        /\ \A e \in Items(render2tpl) : e[2] # Placeholder(<<>>)
        /\ \A e \in Items(tpl2render) : e[1] # Placeholder(<<>>)

(***************************************************************************)
(* C20.  Path translation is per component.  As claimed: the path          *)
(* relpath_substitute returns has, as its i-th component, the i-th         *)
(* component of rel with every pair of the table applied in table order.   *)
(* As the code has it: the replaced components are handed to Path(), which *)
(* splits them at "/" and drops the empty ones and "."; the result has     *)
(* the replaced components as its components when none of them is empty,   *)
(* "." or holds a "/".  A pair whose source holds a "/" replaces nothing,  *)
(* and the call changes neither its path nor the tables.                   *)
(***************************************************************************)
ReplacedComponents(rel, table) ==
    [i \in 1..Len(rel) |-> FirstPairsApplied(rel[i], table, Len(table))]

PlainComponents(parts) ==
    \A i \in 1..Len(parts) :
        parts[i] # <<>> /\ parts[i] # <<".">> /\ ~Contains(parts[i], "/")

WithoutSlashKeys(table) == SelectSeq(table, LAMBDA e : ~Contains(e[1], "/"))

C20_Original ==
    pc = "finished" =>
        /\ result.rel = ReplacedComponents(arg_rel, render2tpl)
        /\ result.exp_rel = ReplacedComponents(arg_rel, tpl2render)

TranslatedBy(out, table) ==
    LET parts == ReplacedComponents(arg_rel, table)
    IN  /\ out = PathOf(parts)
        /\ PlainComponents(parts) => out = parts
        /\ out = PathOf(ReplacedComponents(arg_rel, WithoutSlashKeys(table)))

C20_PerComponent ==
    /\ [](pc = "finished" =>
            TranslatedBy(result.rel, render2tpl) /\ TranslatedBy(result.exp_rel, tpl2render))
    /\ [][(pc \in {"call_relpath_substitute", "returned"}) =>
            UNCHANGED <<arg_rel, render2tpl, tpl2render>>]_vars

\* A path of two components, one of them holding a placeholder that was
\* replaced by its value.
C20_Witness ==
    /\ pc = "finished"
    /\ Len(arg_rel) = 2
    /\ Len(result.exp_rel) = 2
    /\ result.exp_rel # arg_rel
    /\ PlainComponents(ReplacedComponents(arg_rel, tpl2render))

(***************************************************************************)
(* C21.  Unchanged text is left alone: when pass 1 comes to an expanded    *)
(* text file whose substituted text equals the text of its template        *)
(* counterpart, the step writes nothing and prints nothing, in both modes. *)
(***************************************************************************)
TextPair(f) ==
    /\ ~NoCounterpart(f)
    /\ Last(f) # README
    /\ ~is_binary(f)
    /\ Decodes(fs[f])
    /\ CanRead(Resolve(TplPath(f)))
    /\ Decodes(fs[Resolve(TplPath(f))])

InSyncText(f) ==
    TextPair(f) /\ substitute(read_text(f), render2tpl) = read_text(Resolve(TplPath(f)))

C21_UnchangedTextLeftAlone ==
    [][\A f \in todo :
          (Pass1StepOn(f) /\ InSyncText(f)) => (fs' = fs /\ log' = log /\ pc' = "pass1")]_vars

\* A finished non-preview run that wrote and printed nothing for a text file
\* holding a bound value, whose template holds the placeholder in its place.
C21_Witness ==
    /\ pc = "done"
    /\ ~diff_only
    /\ fs = RunStartFs
    /\ \A i \in 1..Len(log) : log[i].op \notin (WriteOps \cup {"diff"})
    /\ \E f \in FilesUnder(exp_root) :
          InSyncText(f) /\ fs[f] # fs[Resolve(TplPath(f))]

(***************************************************************************)
(* C22.  Final report conditions: when a run has finished, the "no files   *)
(* were modified" notice is in its output exactly when it ran in preview   *)
(* mode, the "fully in sync" confirmation exactly when it did not and both *)
(* lists are empty, and the heading and the entries of a list exactly when *)
(* the list is not empty; nothing of the report is printed before both     *)
(* passes are over.                                                        *)
(***************************************************************************)
HasPrinted(op) == \E i \in 1..Len(log) : log[i].op = op

EntriesPrinted(op) == {log[i].rel : i \in {k \in 1..Len(log) : log[k].op = op}}

ListReported(heading, entry, paths) ==
    /\ HasPrinted(heading) <=> paths # <<>>
    /\ EntriesPrinted(entry) = SeqToSet(paths)
    /\ \A i \in 1..Len(log) :
          log[i].op = entry => \E h \in 1..(i - 1) : log[h].op = heading

C22_ReportConditions ==
    /\ pc = "done" =>
          /\ HasPrinted("no_files_modified") <=> diff_only
          /\ HasPrinted("fully_in_sync") <=>
                (~diff_only /\ unmapped_expanded = <<>> /\ missing_in_expanded = <<>>)
          /\ ListReported("unmapped_list", "unmapped_entry", unmapped_expanded)
          /\ ListReported("missing_list", "missing_entry", missing_in_expanded)
    /\ pc # "done" => \A i \in 1..Len(log) : log[i].op \notin ReportOps

\* A finished preview run with two unmapped files and no missing one.
C22_Witness ==
    /\ pc = "done"
    /\ diff_only
    /\ Len(unmapped_expanded) = 2
    /\ missing_in_expanded = <<>>
    /\ HasPrinted("unmapped_entry")

\* The colour the claim gives a line of the hunk by what the line represents.
ColourByTag(tag) ==
    IF tag = "+" THEN "GREEN" ELSE IF tag = "-" THEN "RED" ELSE "none"

(***************************************************************************)
(* C23. Diff colourisation: in what print_color_diff prints, the two file  *)
(* headers and the hunk header are uncoloured, every line of the hunk that *)
(* stands for added content is green, every line that stands for removed   *)
(* content is red and every context line is uncoloured, whatever the       *)
(* content of the line begins with.                                        *)
(***************************************************************************)
C23_DiffColours ==
    pc = "printed" =>
        LET body == DiffBody(splitlines(arg_old), splitlines(arg_text))
            out  == result.printed
        IN  out # <<>> =>
              /\ Len(out) = 3 + Len(body)
              /\ \A i \in 1..3 : out[i].colour = "none"
              /\ \A i \in 1..Len(body) : out[3 + i].colour = ColourByTag(body[i].tag)

\* The positions of this run's log that record a write to a template file.
Writes == {i \in 1..Len(log) : log[i].op \in WriteOps}

(***************************************************************************)
(* C24. Each template file is written at most once per run: no two writes  *)
(* of one run go to the same template path, that is, no two distinct       *)
(* expanded files are reconciled onto one template file.                   *)
(***************************************************************************)
C24_WrittenAtMostOnce ==
    \A i, j \in Writes : log[i].path = log[j].path => i = j

\* The template files pass 2 finds a counterpart for, as relative paths.
NotMissing ==
    {RelativeTo(t, tmpl_root) : t \in {f \in FilesUnder(tmpl_root) :
                                          ~Missing(RelativeTo(f, tmpl_root))}}

(***************************************************************************)
(* C25. The two passes agree on which files correspond: when pass 2 finds  *)
(* the expanded file E for the template file T (T is not missing), pass 1  *)
(* translates E back to T, and E is not in the unmapped list.              *)
(***************************************************************************)
C25_PassesAgree ==
    pc \in {"pass1", "pass2", "done"} =>
        \A tpl_rel \in NotMissing :
            /\ relpath_substitute(Pass2ExpRel(tpl_rel), render2tpl) = tpl_rel
            /\ Pass2ExpRel(tpl_rel) \notin SeqToSet(unmapped_expanded)

\* The pairs of the table whose key the text holds at position k, by position
\* in the table (the table is sorted longest key first).
MatchesAt(text, table, k) ==
    {e \in 1..Len(table) :
        /\ table[e][1] # <<>>
        /\ StartsWith(SubSeq(text, k, Len(text)), table[e][1])}

\* One simultaneous replacement from left to right: at each position of the
\* original text the first pair whose key starts there is replaced and the
\* scan goes on after the key; what was inserted is never looked at again.
RECURSIVE SimultaneousFrom(_, _, _)
SimultaneousFrom(text, table, k) ==
    IF k > Len(text) THEN <<>>
    ELSE IF MatchesAt(text, table, k) = {} THEN
            <<text[k]>> \o SimultaneousFrom(text, table, k + 1)
    ELSE LET e == CHOOSE h \in MatchesAt(text, table, k) :
                     \A g \in MatchesAt(text, table, k) : h <= g
         IN  table[e][2] \o SimultaneousFrom(text, table, k + Len(table[e][1]))

NoEmptyKey(table) == \A e \in 1..Len(table) : table[e][1] # <<>>

(***************************************************************************)
(* C26. Inserted placeholders are not re-scanned: for bound values that    *)
(* are not empty, substitute(text, render2tpl) is the result of a single   *)
(* simultaneous left-to-right replacement of the bound values, longest     *)
(* first, in the original text.                                            *)
(***************************************************************************)
C26_NoRescan ==
    (pc \in {"call_relpath_substitute", "returned", "finished"} /\ NoEmptyKey(render2tpl)) =>
        result.text = SimultaneousFrom(arg_text, render2tpl, 1)

\* The names and the values bound are pairwise distinct, and no value is empty.
DistinctBindings ==
    \A i, j \in 1..Len(argv_var) :
        /\ SpecValue(argv_var[i]) # <<>>
        /\ i # j => /\ SpecName(argv_var[i]) # SpecName(argv_var[j])
                    /\ SpecValue(argv_var[i]) # SpecValue(argv_var[j])

\* The text holds no placeholder: "{{cookiecutter." starts nowhere in it.
NoPlaceholderLiteral(text) ==
    \A k \in 1..Len(text) :
        ~StartsWith(SubSeq(text, k, Len(text)),
                    <<"{", "{", "c", "o", "o", "k", "i", "e", "c", "u", "t", "t", "e", "r", ".">>)

(***************************************************************************)
(* C27. Round trip: for bindings with distinct names and distinct values,  *)
(* none empty, and a text that holds no placeholder, rendering the         *)
(* substituted text again gives the text back:                             *)
(* substitute(substitute(text, render2tpl), tpl2render) = text.            *)
(***************************************************************************)
C27_RoundTrip ==
    (/\ pc \in {"call_relpath_substitute", "returned", "finished"}
     /\ DistinctBindings
     /\ NoPlaceholderLiteral(arg_text)) =>
        substitute(result.text, tpl2render) = arg_text

\* The placeholder is in the text where the text given did not have it, with
\* no occurrence of a non-empty value bound to it to stand for.
InsertedForNothing(placeholder, given, out) ==
    /\ Occurs(placeholder, out)
    /\ ~Occurs(placeholder, given)
    /\ \A e \in Items(render2tpl) :
          e[2] = placeholder => (e[1] = <<>> \/ ~Occurs(e[1], given))

(***************************************************************************)
(* C28. Placeholders appear only where a value occurred: a placeholder     *)
(* that substitute or relpath_substitute puts into a text or a path        *)
(* component stands for an occurrence of its bound value, which is not     *)
(* empty; a binding with an empty VALUE inserts no placeholder.            *)
(***************************************************************************)
C28_OnlyWhereValueOccurred ==
    /\ pc \in {"call_relpath_substitute", "returned", "finished"} =>
          \A e \in Items(render2tpl) : ~InsertedForNothing(e[2], arg_text, result.text)
    /\ pc \in {"returned", "finished"} =>
          \A e \in Items(render2tpl) : \A i \in 1..Len(result.rel) :
              ~InsertedForNothing(e[2], arg_text, result.rel[i])

\* The template files the preview run before this one announced a change of.
Announced(r) ==
    {e.rel : e \in {p \in hist[r].printed : p.op \in {"diff", "binary_differs"}}}

\* The template files this run has written.
Written == {log[i].rel : i \in Writes}

\* This run is a finished non-preview run, and the run before it was a
\* finished preview run: both ran on the same trees and bindings.
RealAfterPreview ==
    /\ pc = "done"
    /\ ~diff_only
    /\ run >= 2
    /\ hist[run - 1].diff_only
    /\ hist[run - 1].ended = "done"

(***************************************************************************)
(* C29. Preview predicts the real run: a finished preview run and the      *)
(* finished non-preview run on the same trees and bindings list the same   *)
(* unmapped files and the same missing files, and the template files the   *)
(* preview printed a diff or a binary-differs notice for are the template  *)
(* files the non-preview run writes.                                       *)
(***************************************************************************)
C29_PreviewPredicts ==
    RealAfterPreview =>
        /\ hist[run - 1].fs = RunStartFs
        /\ hist[run - 1].unmapped = SeqToSet(unmapped_expanded)
        /\ hist[run - 1].missing = SeqToSet(missing_in_expanded)
        /\ Announced(run - 1) = Written

\* What reconciling the text pair of f does in one step: nothing when the
\* substituted text is the template's, else the diff and, unless the run is a
\* preview, the write of the substituted text.
ReconciledAsText(f) ==
    LET tpl_file == Resolve(TplPath(f))
        new_text == substitute(read_text(f), render2tpl)
    IN  IF new_text = read_text(tpl_file) THEN fs' = fs /\ log' = log
        ELSE /\ Len(NewEvents) = (IF diff_only THEN 1 ELSE 2)
             /\ NewEvents[1].op = "diff"
             /\ NewEvents[1].rel = TplRel(f)
             /\ diff_only => fs' = fs
             /\ ~diff_only =>
                   /\ NewEvents[2].op = "write_text"
                   /\ NewEvents[2].path = tpl_file
                   /\ fs' = [fs EXCEPT ![tpl_file] = new_text]

(***************************************************************************)
(* C30. Exclusion markers affect reporting only: pass 1 reconciles an      *)
(* expanded file with a path component .venv or .mypy_cache whose          *)
(* translated path is a template file like any other file (the diff, and   *)
(* the write unless the run is a preview); the markers only keep such a    *)
(* file out of the unmapped list when it has no template counterpart.      *)
(***************************************************************************)
C30_MarkersOnlyReport ==
    [][\A f \in todo :
          (Pass1StepOn(f) /\ Excluded(ExpRel(f))) =>
              /\ unmapped_expanded' = unmapped_expanded
              /\ TextPair(f) => ReconciledAsText(f)
              /\ NoCounterpart(f) => (fs' = fs /\ log' = log)]_vars

\* A non-preview run has written a template file from an expanded file under
\* .venv.
C30_Witness ==
    /\ ~diff_only
    /\ \E i \in Writes :
          /\ Excluded(RelativeTo(log[i].src, exp_root))
          /\ fs[log[i].path] # RunStartFs[log[i].path]

=============================================================================
